---- MODULE Spec2Model ----
(***************************************************************************)
(* Order status updates and SSE event fan-out of the foodiepie server.     *)
(*                                                                         *)
(*   orders           the Order collection (MongoDB), in insertion order   *)
(*   sseInit          whether globalThis.__sseConnections has been created *)
(*   sseConnections   the Map connectionId -> connectionData, as the       *)
(*                    sequence of its entries in insertion order           *)
(*   connId, ctrl, pingOn, aborted, inbox   one ReadableStream per         *)
(*                    accepted GET: the connectionId it registered under,  *)
(*                    its controller ("closed" once the peer is gone and   *)
(*                    enqueue throws), its keep-alive timer, whether its   *)
(*                    abort listener has run, the frames enqueued on it    *)
(*   pings            number of ping frames enqueued so far                *)
(*   req              the server-action invocations, each suspended at one *)
(*                    of its awaits (pc) or finished with a result         *)
(*   views            the orders list shown by each admin terminal         *)
(*   now              Date.now()                                           *)
(*                                                                         *)
(*   es               the EventSource objects the provider has created:     *)
(*                    readyState, the response stream each is attached to,  *)
(*                    the number of frames it has dispatched                *)
(*   eventSourceRef, isConnected, connectionIdState, subscribersRef,        *)
(*   reconnectTimeoutRef, connectionParamsRef   the refs and the state of   *)
(*                    the provider                                          *)
(*   timers           the delays of the pending setTimeout callbacks        *)
(*   calls            the subscriber callbacks invoked so far               *)
(*   pageLoaded, loading, pageOrders   whether the customer's order page    *)
(*                    has run its mount effect, and its loading and orders  *)
(*                    state                                                 *)
(*                                                                         *)
(* Database calls are assumed not to throw; a JavaScript function body     *)
(* between two awaits is one step.                                         *)
(***************************************************************************)
EXTENDS Integers, Sequences, FiniteSets, TLC

\* ---------------------------------------------------------------- bounds
MaxReq == 2
MaxStreams == 2
MaxNow == 1
MaxPings == 1
MaxTerminals == 2
MaxPlace == 1
MaxTransports == 3
MaxCallbacks == 1

\* ------------------------------------------------------------ value sets
Null == "null"
Restaurants == {"R1", "R2"}
Phones == {"P1", "P2"}
OrderIds == {"O1", "O2"}
validStatuses == <<"Placed", "Accepted", "Preparing", "Served", "Cancelled">>
Statuses == {validStatuses[i] : i \in 1..Len(validStatuses)}
RequestedStatuses == Statuses \cup {"Bogus"}

ORDER_PLACED == "order:placed"
ORDER_UPDATED == "order:updated"
ORDER_STATUS_CHANGED == "order:status_changed"

\* The query strings a client may send to the SSE endpoint.
ConnParams ==
  { [type |-> "admin", restaurantId |-> "R1", customerPhone |-> Null],
    [type |-> "admin", restaurantId |-> "R2", customerPhone |-> Null],
    [type |-> "customer", restaurantId |-> "R1", customerPhone |-> "P1"],
    [type |-> "customer", restaurantId |-> "R1", customerPhone |-> "P2"],
    [type |-> "admin", restaurantId |-> Null, customerPhone |-> Null] }

\* The restaurant each admin terminal is logged in to.
TerminalRestaurant(t) == "R1"

NoOrder == [orderId |-> Null, status |-> Null, restoId |-> Null, customerPhone |-> Null]
NoData == [orderId |-> Null, status |-> Null, order |-> NoOrder]
NoConnId == <<>>
NoTimestamp == 0 - 1
NoResult == [success |-> FALSE, error |-> Null, order |-> NoOrder, broadcastCount |-> 0]

\* The parameters connect() may be called with; connectionParamsRef when null.
ClientParams ==
  { [type |-> "customer", restaurantId |-> "R1", customerPhone |-> "P1"],
    [type |-> "customer", restaurantId |-> Null, customerPhone |-> "P1"] }
NoParams == [type |-> Null, restaurantId |-> Null, customerPhone |-> Null]

\* The event names a component may subscribe to, and its callbacks.
EventNames == {ORDER_STATUS_CHANGED, "*"}
Callbacks == 1..MaxCallbacks

VARIABLES now, orders, sseInit, sseConnections, connId, ctrl, pingOn, aborted,
          inbox, pings, req, views

\* One browser tab with a WebSocketProvider mounted.
VARIABLES es, eventSourceRef, isConnected, connectionIdState, subscribersRef,
          reconnectTimeoutRef, timers, connectionParamsRef, calls

\* The customer's order page (OrderPage) in that tab.
VARIABLES pageLoaded, loading, pageOrders

pageVars == <<pageLoaded, loading, pageOrders>>

clientVars == <<es, eventSourceRef, isConnected, connectionIdState,
                subscribersRef, reconnectTimeoutRef, timers,
                connectionParamsRef, calls, pageVars>>

vars == <<now, orders, sseInit, sseConnections, connId, ctrl, pingOn, aborted,
          inbox, pings, req, views, clientVars>>

Streams == 1..MaxStreams
Reqs == 1..MaxReq
Terminals == 1..MaxTerminals

\* ------------------------------------------------------------- helpers
RECURSIVE IndexOfOrder(_, _, _)
IndexOfOrder(docs, orderId, i) ==
  IF i > Len(docs) THEN 0
  ELSE IF docs[i].orderId = orderId THEN i
  ELSE IndexOfOrder(docs, orderId, i + 1)

\* Order.findOne({ orderId }): index of the first matching document, 0 if none.
FindOne(orderId) == IndexOfOrder(orders, orderId, 1)

RECURSIVE IndexOfConn(_, _, _)
IndexOfConn(conns, id, i) ==
  IF i > Len(conns) THEN 0
  ELSE IF conns[i].id = id THEN i
  ELSE IndexOfConn(conns, id, i + 1)

\* Mutant: delete removes nothing.
MapDelete_Noop(conns, id) == conns

\* Map.prototype.delete: no effect when the key is absent.
MapDelete(conns, id) ==
  LET i == IndexOfConn(conns, id, 1) IN
  IF i = 0 THEN conns
  ELSE SubSeq(conns, 1, i - 1) \o SubSeq(conns, i + 1, Len(conns))

\* Map.prototype.set: an existing key keeps its position and gets the new value.
MapSet(conns, entry) ==
  LET i == IndexOfConn(conns, entry.id, 1) IN
  IF i = 0 THEN Append(conns, entry)
  ELSE [conns EXCEPT ![i] = entry]

\* One SSE frame. pub is the index of the request that published it (0 for
\* the frames of the endpoint itself); it is not part of the wire format.
Frame(event, data, connectionId, timestamp, pub) ==
  [event |-> event, data |-> data, connectionId |-> connectionId,
   timestamp |-> timestamp, pub |-> pub]

\* ---------------------------------------------------------- broadcasting
\* Mutant: the restaurant-wide publish reaches admin connections only.
MatchRestaurant_AdminOnly(conn, restaurantId) ==
  /\ conn.restaurantId = restaurantId
  /\ conn.type = "admin"

MatchRestaurant(conn, restaurantId) ==
  conn.restaurantId = restaurantId

\* Mutant: the customer publish does not compare the phone.
MatchCustomer_AnyPhone(conn, restaurantId, customerPhone) ==
  /\ conn.restaurantId = restaurantId
  /\ conn.type = "customer"

MatchCustomer(conn, restaurantId, customerPhone) ==
  /\ conn.restaurantId = restaurantId
  /\ conn.type = "customer"
  /\ conn.customerPhone = customerPhone

\* Mutant: the admin publish does not compare the restaurant.
MatchAdmin_AnyRestaurant(conn, restaurantId) ==
  conn.type = "admin"

\* Mutant: the admin publish does not compare the connection type.
MatchAdmin_AnyType(conn, restaurantId) ==
  conn.restaurantId = restaurantId

MatchAdmin(conn, restaurantId) ==
  /\ conn.restaurantId = restaurantId
  /\ conn.type = "admin"

Matches(kind, conn, restaurantId, customerPhone) ==
  CASE kind = "restaurant" -> MatchRestaurant(conn, restaurantId)
    [] kind = "customer" -> MatchCustomer(conn, restaurantId, customerPhone)
    [] kind = "admin" -> MatchAdmin(conn, restaurantId)

\* Mutant: a push that fails makes the whole publish report a failure.
EnqueueThrew_Reported(acc, conn) ==
  [acc EXCEPT !.conns = MapDelete(@, conn.id), !.failed = @ + 1,
              !.success = FALSE, !.error = "enqueue failed"]

\* The catch around controller.enqueue: the entry is deleted, nothing else.
\* failed counts the pushes that threw; the code keeps no such count.
EnqueueThrew(acc, conn) ==
  [acc EXCEPT !.conns = MapDelete(@, conn.id), !.failed = @ + 1]

\* Mutant: the entry that follows a deleted one is skipped, as in an
\* iteration by index over the shrinking collection.
RECURSIVE ForEachConn_SkipAfterDelete(_, _, _, _, _, _)
ForEachConn_SkipAfterDelete(kind, restaurantId, customerPhone, frame, i, acc) ==
  IF i > Len(sseConnections) THEN acc
  ELSE
    LET conn == sseConnections[i]
        hit == Matches(kind, conn, restaurantId, customerPhone)
        ok == ctrl[conn.s] = "open"
        next == IF hit
                THEN IF ok
                     THEN [acc EXCEPT !.inbox[conn.s] = Append(@, frame),
                                      !.broadcastCount = @ + 1]
                     ELSE EnqueueThrew(acc, conn)
                ELSE acc
    IN ForEachConn_SkipAfterDelete(kind, restaurantId, customerPhone, frame,
                                   IF hit /\ ~ok THEN i + 2 ELSE i + 1, next)

\* connections.forEach over the entries present when the call starts: a
\* matching entry gets the frame enqueued, or is deleted when enqueue throws.
RECURSIVE ForEachConn(_, _, _, _, _, _)
ForEachConn(kind, restaurantId, customerPhone, frame, i, acc) ==
  IF i > Len(sseConnections) THEN acc
  ELSE
    LET conn == sseConnections[i]
        next == IF Matches(kind, conn, restaurantId, customerPhone)
                THEN IF ctrl[conn.s] = "open"
                     THEN [acc EXCEPT !.inbox[conn.s] = Append(@, frame),
                                      !.broadcastCount = @ + 1]
                     ELSE EnqueueThrew(acc, conn)
                ELSE acc
    IN ForEachConn(kind, restaurantId, customerPhone, frame, i + 1, next)

\* broadcastTo{Restaurant,Customer,Admin}Action
Broadcast(kind, restaurantId, customerPhone, event, data, pub) ==
  IF ~sseInit
  THEN [success |-> FALSE, error |-> "No connections available",
        broadcastCount |-> 0, failed |-> 0, conns |-> sseConnections,
        inbox |-> inbox]
  ELSE ForEachConn(kind, restaurantId, customerPhone,
                   Frame(event, data, NoConnId, now, pub), 1,
                   [success |-> TRUE, error |-> Null, broadcastCount |-> 0,
                    failed |-> 0, conns |-> sseConnections, inbox |-> inbox])

\* What a request remembers of a publish it made.
PubRecord(kind, restaurantId, customerPhone, event, data, r) ==
  [kind |-> kind, restaurantId |-> restaurantId, customerPhone |-> customerPhone,
   event |-> event, data |-> data, success |-> r.success,
   broadcastCount |-> r.broadcastCount, failed |-> r.failed]

\* ------------------------------------------------------------------ Init
IdleReq ==
  [op |-> "none", pc |-> "idle", orderId |-> Null, newStatus |-> Null,
   restoId |-> Null, customerPhone |-> Null, event |-> Null, origin |-> 0,
   doc |-> NoOrder, prev |-> Null, result |-> NoResult, pubs |-> <<>>]

\* The registry, the streams and the requests of a server process that has
\* just started.
InitProcess ==
  /\ now = 0
  /\ sseInit = FALSE
  /\ sseConnections = <<>>
  /\ connId = [s \in Streams |-> NoConnId]
  /\ ctrl = [s \in Streams |-> "none"]
  /\ pingOn = [s \in Streams |-> FALSE]
  /\ aborted = [s \in Streams |-> FALSE]
  /\ inbox = [s \in Streams |-> <<>>]
  /\ pings = 0
  /\ req = [k \in Reqs |-> IdleReq]
  /\ views = [t \in Terminals |-> <<>>]
  /\ es = <<>>
  /\ eventSourceRef = 0
  /\ isConnected = FALSE
  /\ connectionIdState = NoConnId
  /\ subscribersRef = [n \in EventNames |-> <<>>]
  /\ reconnectTimeoutRef = FALSE
  /\ timers = <<>>
  /\ connectionParamsRef = NoParams
  /\ calls = <<>>
  /\ pageLoaded = FALSE
  /\ loading = TRUE
  /\ pageOrders = <<>>

\* A fresh deployment: no order yet.
Init ==
  /\ orders = <<>>
  /\ InitProcess

\* A restart: the database may hold an order placed before, in any status
\* the order can have been given.
InitialOrders ==
  {<<>>} \cup {<<[orderId |-> "O1", status |-> st, restoId |-> "R1",
                  customerPhone |-> "P1"]>> : st \in Statuses}

InitRestart ==
  /\ orders \in InitialOrders
  /\ InitProcess

\* ------------------------------------------------------------ SSE endpoint
Tick ==
  /\ now < MaxNow
  /\ now' = now + 1
  /\ UNCHANGED <<clientVars, orders, sseInit, sseConnections, connId, ctrl,
                 pingOn, aborted, inbox, pings, req, views>>

ConnectionId(p) ==
  <<p.type, p.restaurantId,
    IF p.customerPhone = Null THEN "admin" ELSE p.customerPhone, now>>

\* Mutant: the connected event does not carry the id.
ConnectedFrame_NoId(connectionId) ==
  Frame("connected", NoData, NoConnId, NoTimestamp, 0)

\* { event: "connected", connectionId }
ConnectedFrame(connectionId) ==
  Frame("connected", NoData, connectionId, NoTimestamp, 0)

\* Mutant: the endpoint accepts a request without restaurantId.
MissingRestaurantId_Never(p) == FALSE

\* if (!restaurantId): the parameter is absent or empty.
MissingRestaurantId(p) == p.restaurantId = Null

\* GET /api/ws: the route module creates the Map when it is loaded; a request
\* without restaurantId is answered 400, any other one opens a stream whose
\* start() registers it, enqueues "connected" and starts the ping timer.
GET(p) ==
  /\ sseInit' = TRUE
  /\ IF MissingRestaurantId(p)
     THEN UNCHANGED <<sseConnections, connId, ctrl, pingOn, inbox>>
     ELSE /\ \E s \in Streams :
               /\ ctrl[s] = "none"
               /\ \A s2 \in Streams : s2 < s => ctrl[s2] # "none"
               /\ LET connectionId == ConnectionId(p)
                      connectionData ==
                        [id |-> connectionId, s |-> s,
                         restaurantId |-> p.restaurantId,
                         customerPhone |-> p.customerPhone, type |-> p.type]
                  IN /\ sseConnections' = MapSet(sseConnections, connectionData)
                     /\ inbox' = [inbox EXCEPT ![s] =
                          <<ConnectedFrame(connectionId)>>]
                     /\ connId' = [connId EXCEPT ![s] = connectionId]
               /\ ctrl' = [ctrl EXCEPT ![s] = "open"]
               /\ pingOn' = [pingOn EXCEPT ![s] = TRUE]
  /\ UNCHANGED <<now, orders, aborted, pings, req, views>>

\* The remote peer goes away (tab closed, network drop): the runtime cancels
\* the response stream, and from now on controller.enqueue throws.
PeerGone(s) ==
  /\ ctrl[s] = "open"
  /\ ctrl' = [ctrl EXCEPT ![s] = "closed"]
  /\ UNCHANGED <<clientVars, now, orders, sseInit, sseConnections, connId, pingOn,
                 aborted, inbox, pings, req, views>>

\* Mutant: the keep-alive timer is left running.
ClearInterval_Forget(s) == pingOn

\* clearInterval(pingInterval) of stream s.
ClearInterval(s) == [pingOn EXCEPT ![s] = FALSE]

\* request.signal "abort" listener.
Abort(s) ==
  /\ ctrl[s] = "closed"
  /\ ~aborted[s]
  /\ aborted' = [aborted EXCEPT ![s] = TRUE]
  /\ pingOn' = ClearInterval(s)
  /\ sseConnections' = MapDelete(sseConnections, connId[s])
  /\ UNCHANGED <<clientVars, now, orders, sseInit, connId, ctrl, inbox, pings, req, views>>

\* The setInterval callback of stream s.
Ping(s) ==
  /\ pingOn[s]
  /\ IF ctrl[s] = "open"
     THEN /\ pings < MaxPings
          /\ pings' = pings + 1
          /\ inbox' = [inbox EXCEPT ![s] =
                 Append(@, Frame("ping", NoData, NoConnId, NoTimestamp, 0))]
          /\ UNCHANGED <<pingOn, sseConnections>>
     ELSE /\ pingOn' = ClearInterval(s)
          /\ sseConnections' = MapDelete(sseConnections, connId[s])
          /\ UNCHANGED <<pings, inbox>>
  /\ UNCHANGED <<clientVars, now, orders, sseInit, connId, ctrl, aborted, req, views>>

\* --------------------------------------------------------- server actions
streamVars == <<connId, ctrl, pingOn, aborted, pings>>

\* The first free request slot.
IsNextReq(k) ==
  /\ req[k].op = "none"
  /\ \A j \in Reqs : j < k => req[j].op # "none"

Failure(error) == [NoResult EXCEPT !.error = error]
Success(order, n) ==
  [success |-> TRUE, error |-> Null, order |-> order, broadcastCount |-> n]

\* A direct call of one of the three exported broadcast actions; the body has
\* no await, so the call is one step.
BroadcastCall(k, op, kind, restaurantId, customerPhone, event) ==
  LET r == Broadcast(kind, restaurantId, customerPhone, event, NoData, k) IN
  /\ IsNextReq(k)
  /\ sseConnections' = r.conns
  /\ inbox' = r.inbox
  /\ req' = [req EXCEPT ![k] =
       [IdleReq EXCEPT !.op = op, !.pc = "done",
                       !.restoId = restaurantId,
                       !.customerPhone = customerPhone, !.event = event,
                       !.result = [success |-> r.success, error |-> r.error,
                                   order |-> NoOrder,
                                   broadcastCount |-> r.broadcastCount],
                       !.pubs = <<PubRecord(kind, restaurantId, customerPhone,
                                            event, NoData, r)>>]]
  /\ UNCHANGED <<clientVars, now, orders, sseInit, streamVars, views>>

broadcastToRestaurantAction(k, restaurantId, event) ==
  BroadcastCall(k, "broadcastToRestaurant", "restaurant", restaurantId, Null, event)

broadcastToCustomerAction(k, restaurantId, customerPhone, event) ==
  BroadcastCall(k, "broadcastToCustomer", "customer", restaurantId, customerPhone, event)

broadcastToAdminAction(k, restaurantId, event) ==
  BroadcastCall(k, "broadcastToAdmin", "admin", restaurantId, Null, event)

\* A publish made by the suspended request k on resuming.
PublishStep(k, kind, restaurantId, customerPhone, event, data, pc, result) ==
  LET r == Broadcast(kind, restaurantId, customerPhone, event, data, k) IN
  /\ sseConnections' = r.conns
  /\ inbox' = r.inbox
  /\ req' = [req EXCEPT ![k].pc = pc,
                        ![k].result = result,
                        ![k].pubs = Append(@, PubRecord(kind, restaurantId,
                                       customerPhone, event, data, r))]

\* ---- placeOrderAction
\* Entry: validation of the required fields, then generateOrderId().
placeOrderAction(k, restoId, customerPhone, orderId) ==
  /\ IsNextReq(k)
  /\ Cardinality({j \in Reqs : req[j].op = "place"}) < MaxPlace
  /\ req' = [req EXCEPT ![k] =
       IF restoId = Null \/ customerPhone = Null
       THEN [IdleReq EXCEPT !.op = "place", !.pc = "done",
                            !.restoId = restoId, !.customerPhone = customerPhone,
                            !.result = Failure("Missing required fields")]
       ELSE [IdleReq EXCEPT !.op = "place", !.pc = "findOne",
                            !.restoId = restoId, !.customerPhone = customerPhone,
                            !.orderId = orderId]]
  /\ UNCHANGED <<clientVars, now, orders, sseInit, sseConnections, inbox, streamVars, views>>

\* Order.findOne({ orderId }) of the uniqueness loop: regenerate while taken.
PlaceFindOne(k, orderId) ==
  /\ req[k].op = "place" /\ req[k].pc = "findOne"
  /\ req' = IF FindOne(req[k].orderId) # 0
            THEN [req EXCEPT ![k].orderId = orderId]
            ELSE [req EXCEPT ![k].pc = "create"]
  /\ UNCHANGED <<clientVars, now, orders, sseInit, sseConnections, inbox, streamVars, views>>

\* Mutant: the order is created already accepted.
NewOrder_Accepted(orderId, restoId, customerPhone) ==
  [orderId |-> orderId, status |-> "Accepted", restoId |-> restoId,
   customerPhone |-> customerPhone]

\* The document given to Order.create.
NewOrder(orderId, restoId, customerPhone) ==
  [orderId |-> orderId, status |-> "Placed", restoId |-> restoId,
   customerPhone |-> customerPhone]

\* Order.create({ ..., status: "Placed" })
PlaceCreate(k) ==
  /\ req[k].op = "place" /\ req[k].pc = "create"
  /\ LET newOrder == NewOrder(req[k].orderId, req[k].restoId,
                              req[k].customerPhone)
     IN /\ orders' = Append(orders, newOrder)
        /\ req' = [req EXCEPT ![k].pc = "broadcast", ![k].doc = newOrder]
  /\ UNCHANGED <<clientVars, now, sseInit, sseConnections, inbox, streamVars, views>>

\* broadcastToAdminAction(restoId, ORDER_PLACED, { order }) and return.
PlaceBroadcast(k) ==
  /\ req[k].op = "place" /\ req[k].pc = "broadcast"
  /\ PublishStep(k, "admin", req[k].restoId, Null, ORDER_PLACED,
                 [orderId |-> Null, status |-> Null, order |-> req[k].doc],
                 "done", Success(req[k].doc, 0))
  /\ UNCHANGED <<clientVars, now, orders, sseInit, streamVars, views>>

\* ---- updateOrderStatusAction
\* Mutant: the requested status is not validated.
ValidStatus_Any(newStatus) == TRUE

ValidStatus(newStatus) ==
  \E i \in 1..Len(validStatuses) : validStatuses[i] = newStatus

\* Entry: validStatuses.includes(newStatus). origin is the admin terminal the
\* call comes from, 0 for a call made directly to the server action.
UpdateCall(k, orderId, newStatus, origin) ==
  /\ IsNextReq(k)
  /\ req' = [req EXCEPT ![k] =
       IF ~ValidStatus(newStatus)
       THEN [IdleReq EXCEPT !.op = "update", !.pc = "done",
                            !.orderId = orderId, !.newStatus = newStatus,
                            !.origin = origin,
                            !.result = Failure("Invalid status")]
       ELSE [IdleReq EXCEPT !.op = "update", !.pc = "findOneAndUpdate",
                            !.orderId = orderId, !.newStatus = newStatus,
                            !.origin = origin]]

updateOrderStatusAction(k, orderId, newStatus) ==
  /\ UpdateCall(k, orderId, newStatus, 0)
  /\ UNCHANGED <<clientVars, now, orders, sseInit, sseConnections, inbox, streamVars, views>>

\* Order.findOneAndUpdate({ orderId }, { status: newStatus }, { new: true }):
\* the first document with that orderId gets the status, whatever it had.
UpdatePersist(k) ==
  /\ req[k].op = "update" /\ req[k].pc = "findOneAndUpdate"
  /\ LET i == FindOne(req[k].orderId) IN
     IF i = 0
     THEN /\ req' = [req EXCEPT ![k].pc = "done",
                                ![k].result = Failure("Order not found")]
          /\ UNCHANGED orders
     ELSE /\ orders' = [orders EXCEPT ![i].status = req[k].newStatus]
          /\ req' = [req EXCEPT ![k].pc = "broadcastCustomer",
                                ![k].prev = orders[i].status,
                                ![k].doc = orders'[i]]
  /\ UNCHANGED <<clientVars, now, sseInit, sseConnections, inbox, streamVars, views>>

\* Mutant: the events carry the status the order had before the update.
UpdateData_Previous(k) ==
  [orderId |-> req[k].doc.orderId, status |-> req[k].prev,
   order |-> req[k].doc]

\* { orderId, status: newStatus, order }
UpdateData(k) ==
  [orderId |-> req[k].doc.orderId, status |-> req[k].newStatus,
   order |-> req[k].doc]

\* broadcastToCustomerAction(restoId, customerPhone, ORDER_STATUS_CHANGED, ...)
UpdateBroadcastCustomer(k) ==
  /\ req[k].op = "update" /\ req[k].pc = "broadcastCustomer"
  /\ PublishStep(k, "customer", req[k].doc.restoId, req[k].doc.customerPhone,
                 ORDER_STATUS_CHANGED, UpdateData(k), "broadcastAdmin",
                 req[k].result)
  /\ UNCHANGED <<clientVars, now, orders, sseInit, streamVars, views>>

\* Mutant: a failed admin publish fails the update.
UpdateReturn_Propagate(order, r) ==
  IF r.success THEN Success(order, 0) ELSE Failure(r.error)

\* The value returned after the two publishes; r is the result of the second.
UpdateReturn(order, r) == Success(order, 0)

\* broadcastToAdminAction(restoId, ORDER_UPDATED, ...) and return.
UpdateBroadcastAdmin(k) ==
  /\ req[k].op = "update" /\ req[k].pc = "broadcastAdmin"
  /\ PublishStep(k, "admin", req[k].doc.restoId, Null, ORDER_UPDATED,
                 UpdateData(k), "done",
                 UpdateReturn(req[k].doc,
                   Broadcast("admin", req[k].doc.restoId, Null, ORDER_UPDATED,
                             UpdateData(k), k)))
  /\ UNCHANGED <<clientVars, now, orders, sseInit, streamVars, views>>

\* ---- admin orders page
RECURSIVE OrdersOf(_, _)
\* Order.find({ restoId }).sort({ createdAt: -1 })
OrdersOf(docs, restoId) ==
  IF docs = <<>> THEN <<>>
  ELSE LET rest == OrdersOf(Tail(docs), restoId) IN
       IF Head(docs).restoId = restoId THEN Append(rest, Head(docs)) ELSE rest

\* fetchData, run on mount and by the 10 s poll timer.
Poll(t) ==
  /\ views' = [views EXCEPT ![t] = OrdersOf(orders, TerminalRestaurant(t))]
  /\ views'[t] # views[t]
  /\ UNCHANGED <<clientVars, now, orders, sseInit, sseConnections, inbox, streamVars, req>>

\* The buttons rendered for an order whose displayed status is status.
Buttons(status) ==
  CASE status = "Placed" -> {"Accepted", "Cancelled"}
    [] status = "Accepted" -> {"Preparing", "Cancelled"}
    [] status = "Preparing" -> {"Served", "Cancelled"}
    [] OTHER -> {}

\* A click on a button of the i-th displayed order.
handleStatusUpdate(k, t, i, newStatus) ==
  /\ i \in 1..Len(views[t])
  /\ newStatus \in Buttons(views[t][i].status)
  /\ UpdateCall(k, views[t][i].orderId, newStatus, t)
  /\ UNCHANGED <<clientVars, now, orders, sseInit, sseConnections, inbox, streamVars, views>>

RECURSIVE SetStatus(_, _, _)
SetStatus(view, orderId, newStatus) ==
  IF view = <<>> THEN <<>>
  ELSE <<IF Head(view).orderId = orderId
         THEN [Head(view) EXCEPT !.status = newStatus]
         ELSE Head(view)>> \o SetStatus(Tail(view), orderId, newStatus)

\* The continuation of handleStatusUpdate once the server action returned.
HandleStatusResult(k) ==
  /\ req[k].op = "update" /\ req[k].pc = "done" /\ req[k].origin # 0
  /\ req' = [req EXCEPT ![k].pc = "returned"]
  /\ views' = [views EXCEPT ![req[k].origin] =
       IF req[k].result.success
       THEN SetStatus(@, req[k].orderId, req[k].newStatus)
       ELSE @]
  /\ UNCHANGED <<clientVars, now, orders, sseInit, sseConnections, inbox, streamVars>>

\* ---- WebSocketProvider (client)
Transports == 1..MaxTransports

RECURSIVE Without(_, _)
\* Set.prototype.delete on a Set kept in insertion order.
Without(seq, cb) ==
  IF seq = <<>> THEN <<>>
  ELSE IF Head(seq) = cb THEN Tail(seq)
  ELSE <<Head(seq)>> \o Without(Tail(seq), cb)

InSeq(seq, cb) == \E i \in 1..Len(seq) : seq[i] = cb

\* subscribe(eventName, callback): Set.add keeps a callback once.
subscribe(eventName, cb) ==
  /\ ~InSeq(subscribersRef[eventName], cb)
  /\ subscribersRef' = [subscribersRef EXCEPT ![eventName] = Append(@, cb)]
  /\ UNCHANGED <<es, eventSourceRef, isConnected, connectionIdState,
                 reconnectTimeoutRef, timers, connectionParamsRef, calls>>
  /\ UNCHANGED <<now, orders, sseInit, sseConnections, inbox, streamVars,
                 req, views, pageVars>>

\* The function returned by subscribe.
unsubscribe(eventName, cb) ==
  /\ InSeq(subscribersRef[eventName], cb)
  /\ subscribersRef' = [subscribersRef EXCEPT ![eventName] = Without(@, cb)]
  /\ UNCHANGED <<es, eventSourceRef, isConnected, connectionIdState,
                 reconnectTimeoutRef, timers, connectionParamsRef, calls>>
  /\ UNCHANGED <<now, orders, sseInit, sseConnections, inbox, streamVars,
                 req, views, pageVars>>

\* Mutant: every subscriber is invoked twice.
notifySubscribers_Twice(eventName, frame, e) ==
  IF eventName \in DOMAIN subscribersRef
  THEN [i \in 1..(2 * Len(subscribersRef[eventName])) |->
          [cb |-> subscribersRef[eventName][(i + 1) \div 2], name |-> eventName,
           event |-> frame.event, pub |-> frame.pub, e |-> e]]
  ELSE <<>>

\* notifySubscribers(eventName, data): the invocations it makes, in order.
\* frame is what the transport e dispatched.
notifySubscribers(eventName, frame, e) ==
  IF eventName \in DOMAIN subscribersRef
  THEN [i \in 1..Len(subscribersRef[eventName]) |->
          [cb |-> subscribersRef[eventName][i], name |-> eventName,
           event |-> frame.event, pub |-> frame.pub, e |-> e]]
  ELSE <<>>

\* Mutant: connect leaves the current transport as it is.
CloseCurrent_Keep == es

\* eventSourceRef.current.close()
CloseCurrent ==
  IF eventSourceRef = 0 THEN es
  ELSE [es EXCEPT ![eventSourceRef].readyState = "closed"]

\* The body of connect(params) past the parameter check.
Connecting(params) ==
  /\ Len(es) < MaxTransports
  /\ connectionParamsRef' = params
  /\ es' = Append(CloseCurrent,
         [readyState |-> "connecting", s |-> 0, read |-> 0, params |-> params])
  /\ eventSourceRef' = Len(es) + 1

connect(params) ==
  /\ IF params.restaurantId = Null \/ params.type = Null
     THEN UNCHANGED <<es, eventSourceRef, connectionParamsRef>>
     ELSE Connecting(params)
  /\ UNCHANGED <<isConnected, connectionIdState, subscribersRef,
                 reconnectTimeoutRef, timers, calls>>
  /\ UNCHANGED <<now, orders, sseInit, sseConnections, inbox, streamVars,
                 req, views, pageVars>>

\* The server handles the request of transport e.
ClientGET(e) ==
  /\ e \in 1..Len(es)
  /\ es[e].readyState = "connecting" /\ es[e].s = 0
  /\ GET(es[e].params)
  /\ \E s \in Streams :
       /\ ctrl[s] = "none" /\ ctrl'[s] = "open"
       /\ es' = [es EXCEPT ![e].s = s]
  /\ UNCHANGED <<eventSourceRef, isConnected, connectionIdState,
                 subscribersRef, reconnectTimeoutRef, timers,
                 connectionParamsRef, calls, pageVars>>

\* clearTimeout(reconnectTimeoutRef.current) when the ref holds a timer.
ClearTimeout ==
  IF reconnectTimeoutRef /\ timers # <<>>
  THEN SubSeq(timers, 1, Len(timers) - 1)
  ELSE timers

\* Mutant: an error never schedules a reconnect.
ShouldSchedule_Never == FALSE

\* Mutant: an error schedules a reconnect even when one is pending.
ShouldSchedule_Always == connectionParamsRef # NoParams

\* if (!reconnectTimeoutRef.current && connectionParamsRef.current)
ShouldSchedule == ~reconnectTimeoutRef /\ connectionParamsRef # NoParams

\* eventSource.onopen
onopen(e) ==
  /\ e \in 1..Len(es)
  /\ es[e].readyState = "connecting" /\ es[e].s # 0
  /\ es' = [es EXCEPT ![e].readyState = "open"]
  /\ isConnected' = TRUE
  /\ timers' = ClearTimeout
  /\ reconnectTimeoutRef' = FALSE
  /\ UNCHANGED <<eventSourceRef, connectionIdState, subscribersRef,
                 connectionParamsRef, calls>>
  /\ UNCHANGED <<now, orders, sseInit, sseConnections, inbox, streamVars,
                 req, views, pageVars>>

\* eventSource.onmessage for the next frame of the response stream.
onmessage(e) ==
  /\ e \in 1..Len(es)
  /\ es[e].readyState = "open"
  /\ es[e].read < Len(inbox[es[e].s])
  /\ LET frame == inbox[es[e].s][es[e].read + 1] IN
       /\ connectionIdState' = IF frame.event = "connected"
                                THEN frame.connectionId
                                ELSE connectionIdState
       /\ calls' = calls \o notifySubscribers(frame.event, frame, e)
                         \o notifySubscribers("*", frame, e)
  /\ es' = [es EXCEPT ![e].read = @ + 1]
  /\ UNCHANGED <<eventSourceRef, isConnected, subscribersRef,
                 reconnectTimeoutRef, timers, connectionParamsRef>>
  /\ UNCHANGED <<now, orders, sseInit, sseConnections, inbox, streamVars,
                 req, views, pageVars>>

\* eventSource.onerror
onerror(e) ==
  /\ e \in 1..Len(es)
  /\ es[e].readyState # "closed"
  /\ isConnected' = FALSE
  /\ es' = [es EXCEPT ![e].readyState = "closed"]
  /\ IF ShouldSchedule
     THEN /\ timers' = Append(timers, 5000)
          /\ reconnectTimeoutRef' = TRUE
     ELSE UNCHANGED <<timers, reconnectTimeoutRef>>
  /\ UNCHANGED <<eventSourceRef, connectionIdState, subscribersRef,
                 connectionParamsRef, calls>>
  /\ UNCHANGED <<now, orders, sseInit, sseConnections, inbox, streamVars,
                 req, views, pageVars>>

\* The setTimeout callback scheduled by onerror.
ReconnectTimeout ==
  /\ timers # <<>>
  /\ timers' = Tail(timers)
  /\ reconnectTimeoutRef' = FALSE
  /\ IF connectionParamsRef # NoParams
     THEN Connecting(connectionParamsRef)
     ELSE UNCHANGED <<es, eventSourceRef, connectionParamsRef>>
  /\ UNCHANGED <<isConnected, connectionIdState, subscribersRef, calls>>
  /\ UNCHANGED <<now, orders, sseInit, sseConnections, inbox, streamVars,
                 req, views, pageVars>>

\* disconnect(), also run when the provider unmounts.
disconnect ==
  /\ eventSourceRef # 0 \/ reconnectTimeoutRef
  /\ es' = CloseCurrent
  /\ eventSourceRef' = 0
  /\ isConnected' = FALSE
  /\ connectionIdState' = NoConnId
  /\ connectionParamsRef' = NoParams
  /\ timers' = ClearTimeout
  /\ reconnectTimeoutRef' = FALSE
  /\ UNCHANGED <<subscribersRef, calls>>
  /\ UNCHANGED <<now, orders, sseInit, sseConnections, inbox, streamVars,
                 req, views, pageVars>>

\* ---- customer order page
\* The session of the customer using the tab.
Session == [type |-> "customer", restaurantId |-> "R1", customerPhone |-> "P1"]

RECURSIVE CustomerOrdersOf(_, _, _)
\* Order.find({ customerPhone, restoId }).sort({ createdAt: -1 })
CustomerOrdersOf(docs, customerPhone, restoId) ==
  IF docs = <<>> THEN <<>>
  ELSE LET rest == CustomerOrdersOf(Tail(docs), customerPhone, restoId) IN
       IF Head(docs).restoId = restoId /\ Head(docs).customerPhone = customerPhone
       THEN Append(rest, Head(docs)) ELSE rest

\* The mount effect of OrderPage: it starts fetchOrders() and calls connect.
OrderPageMount ==
  /\ ~pageLoaded
  /\ pageLoaded' = TRUE
  /\ Connecting(Session)
  /\ UNCHANGED <<isConnected, connectionIdState, subscribersRef,
                 reconnectTimeoutRef, timers, calls, loading, pageOrders>>
  /\ UNCHANGED <<now, orders, sseInit, sseConnections, inbox, streamVars,
                 req, views>>

\* fetchOrders() once getCustomerOrdersAction has answered; no orders are
\* saved in localStorage.
fetchOrders ==
  /\ pageLoaded /\ loading
  /\ loading' = FALSE
  /\ LET result == CustomerOrdersOf(orders, Session.customerPhone,
                                    Session.restaurantId)
     IN pageOrders' = IF Len(result) > 0 THEN result ELSE pageOrders
  /\ UNCHANGED <<es, eventSourceRef, isConnected, connectionIdState,
                 subscribersRef, reconnectTimeoutRef, timers,
                 connectionParamsRef, calls, pageLoaded>>
  /\ UNCHANGED <<now, orders, sseInit, sseConnections, inbox, streamVars,
                 req, views>>

\* ------------------------------------------------------------------ Next
\* The order data a customer's cart may submit.
OrderInputs ==
  { [restoId |-> "R1", customerPhone |-> "P1"],
    [restoId |-> Null, customerPhone |-> "P1"] }

StreamNext ==
  \/ \E p \in ConnParams : GET(p) /\ UNCHANGED clientVars
  \/ \E s \in Streams : PeerGone(s)
  \/ \E s \in Streams : Abort(s)

PlaceNext ==
  \/ \E k \in Reqs, d \in OrderInputs, o \in OrderIds :
       placeOrderAction(k, d.restoId, d.customerPhone, o)
  \/ \E k \in Reqs, o \in OrderIds : PlaceFindOne(k, o)
  \/ \E k \in Reqs : PlaceCreate(k)
  \/ \E k \in Reqs : PlaceBroadcast(k)

UpdateNext ==
  \/ \E k \in Reqs : UpdatePersist(k)
  \/ \E k \in Reqs : UpdateBroadcastCustomer(k)
  \/ \E k \in Reqs : UpdateBroadcastAdmin(k)

\* Orders placed and updated through the server actions while SSE clients
\* come and go.
Next ==
  \/ StreamNext
  \/ PlaceNext
  \/ \E k \in Reqs, o \in OrderIds, st \in RequestedStatuses :
       updateOrderStatusAction(k, o, st)
  \/ UpdateNext

Spec == Init /\ [][Next]_vars

\* Status updates of one existing order running concurrently while the
\* customer's SSE connections come and go.
NextConcurrent ==
  \/ GET(Session) /\ UNCHANGED clientVars
  \/ \E s \in Streams : PeerGone(s)
  \/ \E s \in Streams : Abort(s)
  \/ \E k \in Reqs, st \in Statuses : updateOrderStatusAction(k, "O1", st)
  \/ UpdateNext

SpecConcurrent == InitRestart /\ [][NextConcurrent]_vars

\* Orders placed and updated through the server actions, no SSE client.
NextStatus ==
  \/ PlaceNext
  \/ \E k \in Reqs, o \in OrderIds, st \in RequestedStatuses :
       updateOrderStatusAction(k, o, st)
  \/ UpdateNext

\* Orders placed and accepted while SSE clients come and go and the
\* keep-alive timers of their connections run.
NextEvents ==
  \/ StreamNext
  \/ \E s \in Streams : Ping(s)
  \/ PlaceNext
  \/ \E k \in Reqs, o \in OrderIds : updateOrderStatusAction(k, o, "Accepted")
  \/ UpdateNext

SpecEvents == Init /\ [][NextEvents]_vars

\* One browser tab of a customer: its provider connects, listens and
\* reconnects while the server pushes status events and pings.
NextClient ==
  \/ \E n \in EventNames, cb \in Callbacks : subscribe(n, cb)
  \/ \E n \in EventNames, cb \in Callbacks : unsubscribe(n, cb)
  \/ \E p \in ClientParams : connect(p)
  \/ \E e \in Transports : ClientGET(e)
  \/ \E e \in Transports : onopen(e)
  \/ \E e \in Transports : onmessage(e)
  \/ \E e \in Transports : onerror(e)
  \/ ReconnectTimeout
  \/ disconnect
  \/ \E s \in Streams : PeerGone(s)
  \/ \E s \in Streams : Ping(s)
  \/ broadcastToCustomerAction(1, "R1", "P1", ORDER_STATUS_CHANGED)

SpecClient == Init /\ [][NextClient]_vars

\* The provider's connection alone: connect and disconnect calls, the
\* server's answers, transport errors and the reconnect timer.
NextReconnect ==
  \/ \E p \in ClientParams : connect(p)
  \/ \E e \in Transports : ClientGET(e)
  \/ \E e \in Transports : onopen(e)
  \/ \E e \in Transports : onmessage(e)
  \/ \E e \in Transports : onerror(e)
  \/ ReconnectTimeout
  \/ disconnect
  \/ \E s \in Streams : PeerGone(s)
  \/ \E s \in Streams : Abort(s)

\* A pending timer fires, the server answers a request it has received, and
\* the browser dispatches the open event of an answered request.
FairReconnect ==
  /\ WF_vars(ReconnectTimeout)
  /\ \A e \in Transports : WF_vars(ClientGET(e)) /\ WF_vars(onopen(e))

SpecClientLive == Init /\ [][NextReconnect]_vars /\ FairReconnect

\* The admin terminals and the customer's order page while orders are
\* updated and the SSE endpoint does not answer.
NextViews ==
  \/ OrderPageMount
  \/ fetchOrders
  \/ \E t \in Terminals : Poll(t)
  \/ \E k \in Reqs, st \in Statuses : updateOrderStatusAction(k, "O1", st)
  \/ UpdateNext

\* Effects, promise continuations and interval timers of a page that stays
\* open do run.
FairViews ==
  /\ WF_vars(OrderPageMount)
  /\ WF_vars(fetchOrders)
  /\ \A t \in Terminals : WF_vars(Poll(t))
  /\ WF_vars(UpdateNext)

SpecViewsLive == InitRestart /\ [][NextViews]_vars /\ FairViews

SpecStatus == InitRestart /\ [][NextStatus]_vars

\* Orders updated only through the buttons of the admin terminals.
NextUI ==
  \/ PlaceNext
  \/ \E t \in Terminals : Poll(t)
  \/ \E k \in Reqs, t \in Terminals, i \in 1..MaxReq, st \in Statuses :
       handleStatusUpdate(k, t, i, st)
  \/ UpdateNext
  \/ \E k \in Reqs : HandleStatusResult(k)

SpecUI == InitRestart /\ [][NextUI]_vars

\* The restaurantId argument a caller may pass to a broadcast action.
PublishTargets == Restaurants \cup {Null}

\* The three broadcast actions called directly while SSE clients come and go.
NextBroadcast ==
  \/ Tick
  \/ StreamNext
  \/ \E k \in Reqs, r \in PublishTargets :
       broadcastToRestaurantAction(k, r, "menu:updated")
  \/ \E k \in Reqs, r \in PublishTargets, ph \in Phones :
       broadcastToCustomerAction(k, r, ph, "menu:updated")
  \/ \E k \in Reqs, r \in PublishTargets :
       broadcastToAdminAction(k, r, "menu:updated")

SpecBroadcast == Init /\ [][NextBroadcast]_vars

\* The life of the SSE connections: clients connect and vanish, the abort
\* listeners and the ping timers run, and restaurant-wide publishes find
\* the registry in whatever state these left it.
NextLifecycle ==
  \/ Tick
  \/ StreamNext
  \/ \E s \in Streams : Ping(s)
  \/ \E k \in Reqs, r \in Restaurants :
       broadcastToRestaurantAction(k, r, "menu:updated")

SpecLifecycle == Init /\ [][NextLifecycle]_vars

\* The runtime aborts request.signal once the client of a response stream
\* is gone, and the listener registered on it then runs.
FairLifecycle == \A s \in Streams : WF_vars(Abort(s))

\* The same within one millisecond.
NextRelease ==
  \/ StreamNext
  \/ \E s \in Streams : Ping(s)
  \/ \E k \in Reqs : broadcastToRestaurantAction(k, "R1", "menu:updated")

SpecLifecycleLive == Init /\ [][NextRelease]_vars /\ FairLifecycle

TypeOK ==
  /\ now \in 0..MaxNow
  /\ sseInit \in BOOLEAN
  /\ Len(orders) <= MaxReq + 1
  /\ Len(sseConnections) <= MaxStreams

\* =============================================================== properties
\* The transition table of the order status.
Allowed(current, requested) ==
  \/ current = "Placed" /\ requested \in {"Accepted", "Cancelled"}
  \/ current = "Accepted" /\ requested \in {"Preparing", "Cancelled"}
  \/ current = "Preparing" /\ requested \in {"Served", "Cancelled"}

Finished(k) == req[k].pc \in {"done", "returned"}

\* Request k found its order: prev is the status the order had before.
Persisted(k) == req[k].op = "update" /\ req[k].prev \in Statuses

\* C1: an update of an existing order succeeds and persists the requested
\* status exactly when (current, requested) is in the transition table;
\* otherwise it fails and the persisted status stays what it was.
C1_TransitionTableEnforced ==
  \A k \in Reqs :
    Persisted(k) =>
      IF Allowed(req[k].prev, req[k].newStatus)
      THEN /\ req[k].doc.status = req[k].newStatus
           /\ Finished(k) => req[k].result.success
      ELSE /\ req[k].doc.status = req[k].prev
           /\ Finished(k) => ~req[k].result.success

\* C2: the persisted status of an order only changes along the transition
\* table, so it never leaves Served or Cancelled.
C2_StatusOnlyMovesForward ==
  [][\A i \in 1..Len(orders) :
       orders'[i].status # orders[i].status =>
         Allowed(orders[i].status, orders'[i].status)]_vars

\* ---- what one step did to the stream of a connection
Registered(s) == \E i \in 1..Len(sseConnections) : sseConnections[i].s = s
ConnOf(s) ==
  sseConnections[CHOOSE i \in 1..Len(sseConnections) : sseConnections[i].s = s]
Healthy(s) == ctrl[s] = "open"

\* The step enqueued exactly one frame on s: event and data, published by k.
GotOne(s, k, event, data) ==
  /\ Len(inbox'[s]) = Len(inbox[s]) + 1
  /\ SubSeq(inbox'[s], 1, Len(inbox[s])) = inbox[s]
  /\ LET f == inbox'[s][Len(inbox'[s])] IN
       f.event = event /\ f.data = data /\ f.pub = k

GotNothing(s) == inbox'[s] = inbox[s]

\* The frames on s that request k published under the given event name.
FramesOf(s, k, event) ==
  {i \in 1..Len(inbox[s]) : inbox[s][i].pub = k /\ inbox[s][i].event = event}

PersistStep(k) ==
  req[k].op = "update" /\ req[k].pc = "findOneAndUpdate"
    /\ req'[k].pc = "broadcastCustomer"
CustomerStep(k) ==
  req[k].op = "update" /\ req[k].pc = "broadcastCustomer"
    /\ req'[k].pc # "broadcastCustomer"
AdminStep(k) ==
  req[k].op = "update" /\ req[k].pc = "broadcastAdmin"
    /\ req'[k].pc # "broadcastAdmin"

StatusData(k) ==
  [orderId |-> req[k].orderId, status |-> req[k].newStatus, order |-> req[k].doc]

C3_Act ==
  \A k \in Reqs :
    /\ PersistStep(k) =>
         \E i \in 1..Len(orders') :
           /\ orders'[i].orderId = req[k].orderId
           /\ orders'[i].status = req[k].newStatus
           /\ req'[k].doc = orders'[i]
    /\ CustomerStep(k) =>
         /\ req'[k].pc = "broadcastAdmin"
         /\ \A s \in Streams : Registered(s) =>
              /\ ( /\ Healthy(s)
                   /\ ConnOf(s).restaurantId = req[k].doc.restoId
                   /\ ConnOf(s).type = "customer"
                   /\ ConnOf(s).customerPhone = req[k].doc.customerPhone )
                 => GotOne(s, k, ORDER_STATUS_CHANGED, StatusData(k))
              /\ ConnOf(s).restaurantId # req[k].doc.restoId => GotNothing(s)
    /\ AdminStep(k) =>
         /\ req'[k].pc = "done"
         /\ req'[k].result.success
         /\ req'[k].result.order = req[k].doc
         /\ \A s \in Streams : Registered(s) =>
              /\ ( /\ Healthy(s)
                   /\ ConnOf(s).restaurantId = req[k].doc.restoId
                   /\ ConnOf(s).type = "admin" )
                 => GotOne(s, k, ORDER_UPDATED, StatusData(k))
              /\ ConnOf(s).restaurantId # req[k].doc.restoId => GotNothing(s)
    /\ ( req'[k].op = "update" /\ req'[k].pc \in {"done", "returned"}
           /\ req'[k].result.success ) =>
         /\ req'[k].doc.status = req'[k].newStatus
         /\ Len(req'[k].pubs) = 2
         /\ req'[k].pubs[1].kind = "customer"
         /\ req'[k].pubs[2].kind = "admin"
         /\ \A s \in Streams :
              /\ Cardinality(FramesOf(s, k, ORDER_STATUS_CHANGED)') <= 1
              /\ Cardinality(FramesOf(s, k, ORDER_UPDATED)') <= 1

\* C3: a successful status update persists the new status; pushes exactly
\* one order:status_changed to every registered customer connection of the
\* order's restaurant and phone whose sink is healthy, and exactly one
\* order:updated to every registered healthy admin connection of the
\* restaurant, each carrying the orderId, the new status and the updated
\* order; a connection of another restaurant gets nothing.
C3_UpdateNotifiesAudiences == [][C3_Act]_vars

\* C3 witness: an update has succeeded, and a customer stream and an admin
\* stream each hold its event.
C3_Witness ==
  \E k \in Reqs, s1 \in Streams, s2 \in Streams :
    /\ req[k].op = "update" /\ req[k].pc = "done" /\ req[k].result.success
    /\ FramesOf(s1, k, ORDER_STATUS_CHANGED) # {}
    /\ FramesOf(s2, k, ORDER_UPDATED) # {}

\* C4: an update requesting the status the order already has fails and
\* makes no publish.
C4_SameStatusRejected ==
  \A k \in Reqs :
    (Persisted(k) /\ req[k].prev = req[k].newStatus) =>
      /\ req[k].pubs = <<>>
      /\ \A s \in Streams :
           \A i \in 1..Len(inbox[s]) : inbox[s][i].pub # k
      /\ Finished(k) => ~req[k].result.success

NoSuchOrder(orderId) == \A i \in 1..Len(orders) : orders[i].orderId # orderId

\* The step ends request k with a failure and touches nothing else.
RejectedNow(k) ==
  /\ req'[k].pc = "done"
  /\ ~req'[k].result.success
  /\ req'[k].result.error # Null
  /\ req'[k].pubs = <<>>
  /\ orders' = orders
  /\ inbox' = inbox
  /\ sseConnections' = sseConnections

C5_Act ==
  \A k \in Reqs :
    /\ ( req[k].op = "none" /\ req'[k].op = "update"
           /\ req'[k].newStatus \notin Statuses ) => RejectedNow(k)
    /\ ( req[k].op = "update" /\ req[k].pc = "findOneAndUpdate"
           /\ req'[k].pc # "findOneAndUpdate"
           /\ NoSuchOrder(req[k].orderId) ) => RejectedNow(k)
    /\ ( req[k].op = "update" /\ Finished(k) /\ ~req[k].result.success ) =>
         /\ req'[k].result = req[k].result
         /\ req'[k].pubs = <<>>

\* C5: an update whose orderId matches no order, or whose requested status
\* is no legal value, returns a failure, changes no order and pushes no event.
C5_RejectedUpdateHasNoEffect == [][C5_Act]_vars

\* C5 witness: an update was rejected for an unknown order while an order
\* and a connection exist.
C5_Witness ==
  \E k \in Reqs :
    /\ req[k].op = "update" /\ req[k].pc = "done"
    /\ req[k].result.error = "Order not found"
    /\ Len(orders) > 0
    /\ \E s \in Streams : Registered(s) /\ Healthy(s)

C6_Act ==
  \A k \in Reqs :
    /\ (CustomerStep(k) \/ AdminStep(k)) => orders' = orders
    /\ (req'[k].op = "update" /\ req'[k].prev \in Statuses
          /\ req'[k].pc \in {"done", "returned"}) =>
         /\ req'[k].result.success
         /\ req'[k].result.order.status = req'[k].newStatus

\* C6: once an update has persisted its status it returns success whatever
\* its two publishes did, and the publishes leave the orders as persisted.
C6_PublishOutcomeNeverFailsUpdate == [][C6_Act]_vars

\* C6 witness: an update succeeded although neither publish delivered
\* anything and the only push attempted, to an admin connection, failed and
\* pruned it.
C6_Witness ==
  \E k \in Reqs, s \in Streams :
    /\ req[k].op = "update" /\ req[k].pc = "done" /\ req[k].result.success
    /\ req[k].pubs[1].broadcastCount = 0
    /\ req[k].pubs[2].success /\ req[k].pubs[2].broadcastCount = 0
    /\ ctrl[s] = "closed" /\ ~aborted[s] /\ ~Registered(s)
    /\ connId[s][1] = "admin" /\ connId[s][2] = req[k].doc.restoId

C7_Act ==
  /\ Len(orders') >= Len(orders)
  /\ Len(orders') > Len(orders) =>
       /\ Len(orders') = Len(orders) + 1
       /\ SubSeq(orders', 1, Len(orders)) = orders
       /\ orders'[Len(orders')].status = "Placed"
       /\ \E k \in Reqs :
            /\ req[k].op = "place" /\ req[k].pc = "create"
            /\ req'[k].pc = "broadcast" /\ req'[k].pubs = <<>>
            /\ req'[k].doc = orders'[Len(orders')]
  /\ \A k \in Reqs :
       /\ (req[k].op = "place" /\ req[k].pc = "broadcast"
             /\ req'[k].pc # "broadcast") =>
            /\ req'[k].pc = "done" /\ req'[k].result.success
            /\ Len(req'[k].pubs) = 1
            /\ req'[k].pubs[1].kind = "admin"
            /\ req'[k].pubs[1].event = ORDER_PLACED
            /\ req'[k].pubs[1].restaurantId = req[k].doc.restoId
            /\ req'[k].pubs[1].data.order = req[k].doc
            /\ \A s \in Streams : Registered(s) =>
                 IF Healthy(s) /\ ConnOf(s).type = "admin"
                     /\ ConnOf(s).restaurantId = req[k].doc.restoId
                 THEN GotOne(s, k, ORDER_PLACED,
                        [orderId |-> Null, status |-> Null, order |-> req[k].doc])
                 ELSE GotNothing(s)
       /\ (req[k].op = "place" /\ req[k].pc = "done") => req'[k] = req[k]

\* C7: an order is created only by placeOrderAction, with status Placed, and
\* its creation is followed by exactly one publish, order:placed to the
\* admin connections of its restaurant; no customer connection is pushed to.
C7_PlacedOnceWithOneAdminPublish == [][C7_Act]_vars

\* C7 witness: an order was placed and an admin stream holds its order:placed.
C7_Witness ==
  \E k \in Reqs, s \in Streams :
    /\ req[k].op = "place" /\ req[k].pc = "done" /\ req[k].result.success
    /\ FramesOf(s, k, ORDER_PLACED) # {}
    /\ \E s2 \in Streams : Registered(s2) /\ Healthy(s2) /\ ConnOf(s2).type = "customer"

\* ---- the direct broadcast calls
BroadcastStep(k, op) == req[k].op = "none" /\ req'[k].op = op

\* The step delivered the frame of call k to s.
Delivered(s, k) == GotOne(s, k, req'[k].event, NoData)

C8_Original ==
  \A k \in Reqs : BroadcastStep(k, "broadcastToRestaurant") =>
    \A s \in Streams : Registered(s) =>
      IF ConnOf(s).restaurantId = req'[k].restoId
      THEN Delivered(s, k) ELSE GotNothing(s)

\* C8 as stated: a restaurant-wide publish for R delivers to every registered
\* connection of R, whatever its role, and to no connection of another
\* restaurant.
C8_RestaurantWideReachesAll == [][C8_Original]_vars

C8_Act ==
  \A k \in Reqs : BroadcastStep(k, "broadcastToRestaurant") =>
    \A s \in Streams :
      IF Registered(s)
      THEN IF ConnOf(s).restaurantId = req'[k].restoId
           THEN IF Healthy(s) THEN Delivered(s, k) ELSE GotNothing(s)
           ELSE GotNothing(s)
      ELSE GotNothing(s)

\* C8 amended: a restaurant-wide publish for R delivers to every registered
\* connection of R whose sink accepts the push, whatever its role, and to no
\* other connection.
C8_RestaurantWideReachesHealthy == [][C8_Act]_vars

\* C8 witness: a restaurant-wide publish delivered to an admin and to a
\* customer connection of the restaurant.
C8_Witness ==
  \E k \in Reqs, s1 \in Streams, s2 \in Streams :
    /\ req[k].op = "broadcastToRestaurant" /\ req[k].result.broadcastCount = 2
    /\ connId[s1][1] = "admin" /\ connId[s2][1] = "customer"
    /\ FramesOf(s1, k, req[k].event) # {}
    /\ FramesOf(s2, k, req[k].event) # {}

C9_Act ==
  \A k \in Reqs : BroadcastStep(k, "broadcastToCustomer") =>
    \A s \in Streams :
      ~GotNothing(s) =>
        /\ Registered(s)
        /\ Delivered(s, k)
        /\ ConnOf(s).restaurantId = req'[k].restoId
        /\ ConnOf(s).type = "customer"
        /\ ConnOf(s).customerPhone = req'[k].customerPhone

\* C9: a customer-addressed publish for (R, P) pushes only to connections
\* with restaurantId R, role customer and customerPhone P.
C9_CustomerPublishOnlyToThatPhone == [][C9_Act]_vars

\* C9 witness: a customer publish was delivered to one connection while a
\* healthy customer connection of the same restaurant and another phone
\* stayed without it.
C9_Witness ==
  \E k \in Reqs, s1 \in Streams, s2 \in Streams :
    /\ req[k].op = "broadcastToCustomer" /\ req[k].result.broadcastCount = 1
    /\ FramesOf(s1, k, req[k].event) # {}
    /\ Registered(s2) /\ Healthy(s2)
    /\ ConnOf(s2).type = "customer"
    /\ ConnOf(s2).restaurantId = req[k].restoId
    /\ ConnOf(s2).customerPhone # req[k].customerPhone
    /\ FramesOf(s2, k, req[k].event) = {}

IsBroadcast(op) ==
  op \in {"broadcastToRestaurant", "broadcastToCustomer", "broadcastToAdmin"}

\* No frame on a stream was published for another restaurant than the one
\* the stream is registered under.
TenantIsolation ==
  \A s \in Streams : \A i \in 1..Len(inbox[s]) :
    inbox[s][i].pub # 0 => req[inbox[s][i].pub].restoId = connId[s][2]

C10_Original ==
  /\ \A k \in Reqs : BroadcastStep(k, "broadcastToAdmin") =>
       \A s \in Streams : Registered(s) =>
         /\ ( ConnOf(s).restaurantId = req'[k].restoId
              /\ ConnOf(s).type = "admin" ) => Delivered(s, k)
         /\ ConnOf(s).type = "customer" => GotNothing(s)
  /\ \A k \in Reqs : (req[k].op = "none" /\ IsBroadcast(req'[k].op)) =>
       \A s \in Streams :
         ~GotNothing(s) => Registered(s) /\ ConnOf(s).restaurantId = req'[k].restoId
  /\ TenantIsolation'

\* C10 as stated: an admin-addressed publish for R delivers to every admin
\* connection of R and to no customer connection, and no publish for R is
\* ever pushed to a connection of another restaurant.
C10_AdminPublishReachesAll == [][C10_Original]_vars

C10_Act ==
  /\ \A k \in Reqs : BroadcastStep(k, "broadcastToAdmin") =>
       \A s \in Streams : Registered(s) =>
         /\ ( Healthy(s)
              /\ ConnOf(s).restaurantId = req'[k].restoId
              /\ ConnOf(s).type = "admin" ) => Delivered(s, k)
         /\ ConnOf(s).type = "customer" => GotNothing(s)
  /\ \A k \in Reqs : (req[k].op = "none" /\ IsBroadcast(req'[k].op)) =>
       \A s \in Streams :
         ~GotNothing(s) => Registered(s) /\ ConnOf(s).restaurantId = req'[k].restoId
  /\ TenantIsolation'

\* C10 amended: an admin-addressed publish for R delivers to every admin
\* connection of R whose sink accepts the push and to no customer
\* connection, and no publish for R is ever pushed to a connection of
\* another restaurant.
C10_AdminPublishAndTenantIsolation == [][C10_Act]_vars

\* C10 witness: an admin publish was delivered to an admin connection while
\* a healthy customer connection of the same restaurant stayed without it.
C10_Witness ==
  \E k \in Reqs, s1 \in Streams, s2 \in Streams :
    /\ req[k].op = "broadcastToAdmin" /\ req[k].result.broadcastCount = 1
    /\ FramesOf(s1, k, req[k].event) # {}
    /\ Registered(s2) /\ Healthy(s2)
    /\ ConnOf(s2).type = "customer"
    /\ ConnOf(s2).restaurantId = req[k].restoId
    /\ FramesOf(s2, k, req[k].event) = {}

\* ---- failures during a publish
\* conn is addressed by the publish that call k makes in this step.
Addressed(k, conn) ==
  /\ conn.restaurantId = req'[k].restoId
  /\ req'[k].op = "broadcastToCustomer" =>
       conn.type = "customer" /\ conn.customerPhone = req'[k].customerPhone
  /\ req'[k].op = "broadcastToAdmin" => conn.type = "admin"

C11_Act ==
  \A k \in Reqs : (req[k].op = "none" /\ IsBroadcast(req'[k].op)) =>
    \A c \in Streams :
      (Registered(c) /\ Addressed(k, ConnOf(c)) /\ ~Healthy(c)) =>
        /\ ~Registered(c)'
        /\ GotNothing(c)
        /\ \A s \in Streams :
             (Registered(s) /\ Addressed(k, ConnOf(s)) /\ Healthy(s)) =>
               Delivered(s, k) /\ Registered(s)'
        /\ req'[k].pc = "done"
        /\ req'[k].result.success
        /\ req'[k].result.error = Null
        /\ req'[k].result.broadcastCount =
             Cardinality({s \in Streams :
               Registered(s) /\ Addressed(k, ConnOf(s)) /\ Healthy(s)})

\* C11: when the push to a matching connection C fails during a publish, C
\* is no longer in the registry when the publish returns, every other
\* matching connection has received the event, and the publish reports
\* success with the number of pushes that went through.
C11_FailedPushIsolated == [][C11_Act]_vars

\* C11 witness: the only publish made so far addressed two connections of
\* one restaurant registered under different ids; the push to the one whose
\* peer was gone failed and pruned it, the other one holds the event.
C11_Witness ==
  \E k \in Reqs, c \in Streams, s \in Streams :
    /\ \A j \in Reqs : j # k => req[j].op = "none"
    /\ req[k].op = "broadcastToRestaurant"
    /\ req[k].result.success /\ req[k].result.broadcastCount = 1
    /\ ctrl[c] = "closed" /\ ~aborted[c] /\ ~Registered(c)
    /\ connId[c][2] = req[k].restoId /\ connId[c] # connId[s]
    /\ FramesOf(c, k, req[k].event) = {}
    /\ Registered(s) /\ FramesOf(s, k, req[k].event) # {}

\* C12: a publish that pushed to no connection, be it that no registered
\* connection matched, that the registry was empty or that it had never been
\* created, returns success with zero deliveries and no error.
C12_NoRecipientIsSilentSuccess ==
  \A k \in Reqs :
    ( /\ IsBroadcast(req[k].op) /\ req[k].pc = "done"
      /\ \A s \in Streams : FramesOf(s, k, req[k].event) = {} ) =>
      /\ req[k].result.success
      /\ req[k].result.error = Null
      /\ req[k].result.broadcastCount = 0

\* C13: a publish whose selector has no restaurantId is rejected with an
\* addressing error of its own, not the outcome of looking at the registry,
\* and pushes to no connection.
C13_MissingRestaurantRejected ==
  \A k \in Reqs :
    (IsBroadcast(req[k].op) /\ req[k].pc = "done" /\ req[k].restoId = Null) =>
      /\ ~req[k].result.success
      /\ req[k].result.error \notin {Null, "No connections available"}
      /\ \A s \in Streams : FramesOf(s, k, req[k].event) = {}

\* ---- removal from the registry
\* The step is a run of the abort listener of s, or a run of its ping
\* callback that found the controller closed.
AbortFired(s) == ~aborted[s] /\ aborted'[s]
PingFailed(s) == pingOn[s] /\ ~pingOn'[s] /\ aborted'[s] = aborted[s]

\* The entries registered under another id than that of s.
OtherEntries(conns, s) ==
  {conns[i] : i \in {j \in 1..Len(conns) : conns[j].id # connId[s]}}

C14_Act ==
  \A s \in Streams : (AbortFired(s) \/ PingFailed(s)) =>
    /\ ~Registered(s)'
    /\ \A i \in 1..Len(sseConnections') : sseConnections'[i].id # connId[s]
    /\ OtherEntries(sseConnections', s) = OtherEntries(sseConnections, s)
    /\ ~pingOn'[s]
    /\ inbox' = inbox

\* C14: whenever the abort listener or the failing ping callback of a
\* connection runs, in whatever order and whether or not the connection is
\* still registered (a failed push or the other handler may have removed it
\* already), the registry afterwards has no entry under that connection's
\* id, every entry under another id is kept, and the timer is stopped.
C14_UnregisterIdempotent == [][C14_Act]_vars

\* C14 witness: the only connection ever opened was pruned by the failed
\* push of the only publish made, and its abort listener has run after that.
C14_Witness ==
  \E k \in Reqs, s \in Streams :
    /\ \A j \in Reqs : j # k => req[j].op = "none"
    /\ \A t \in Streams : t # s => ctrl[t] = "none"
    /\ req[k].op = "broadcastToRestaurant"
    /\ req[k].pubs[1].failed = 1
    /\ aborted[s] /\ ~pingOn[s] /\ ~Registered(s)

\* ---- connection ids
Accepted == {s \in Streams : ctrl[s] # "none"}

\* C15: every accepted connection is registered under an id of its own, so
\* that registering never replaces an entry: as long as no connection has
\* been removed (no peer is gone, so that no handler and no failed push has
\* deleted anything), the accepted connections have pairwise distinct ids
\* and the registry holds one entry for each of them.
C15_ConnectionIdsUnique ==
  (\A s \in Streams : ctrl[s] # "closed") =>
    /\ \A s1 \in Accepted, s2 \in Accepted : s1 # s2 => connId[s1] # connId[s2]
    /\ Len(sseConnections) = Cardinality(Accepted)
    /\ \A s \in Accepted : Registered(s)

\* ---- release of a vanished peer's connection
Released(s) == ~Registered(s) /\ ~pingOn[s]

\* C16: once the peer of a connection is gone, the connection is eventually
\* out of the registry with its ping timer stopped, and stays so.
C16_VanishedPeerReleased ==
  \A s \in Streams : [](ctrl[s] = "closed" => <>[]Released(s))

\* C16 witness: a connection that received a publish lost its peer, and its
\* abort listener has released it while another connection stays registered.
C16_Witness ==
  \E s \in Streams, t \in Streams, k \in Reqs :
    /\ ctrl[s] = "closed" /\ aborted[s] /\ Released(s)
    /\ FramesOf(s, k, req[k].event) # {}
    /\ t # s /\ Registered(t) /\ Healthy(t)

\* ---- the endpoint's answer to a request
C17_Act ==
  /\ \A s \in Streams : (ctrl[s] = "none" /\ ctrl'[s] # "none") =>
       /\ connId'[s][2] # Null
       /\ Registered(s)' /\ ConnOf(s)'.restaurantId = connId'[s][2]
  /\ (sseInit' # sseInit /\ \A s \in Streams : ctrl'[s] = ctrl[s]) =>
       UNCHANGED <<sseConnections, inbox, pingOn, connId>>
  /\ \A i \in 1..Len(sseConnections') : sseConnections'[i].restaurantId # Null

\* C17: a request without restaurantId opens no stream: the first request to
\* the endpoint, if it is answered without a stream, leaves the registry,
\* the frames and the timers as they were, and no stream, registry entry,
\* connected frame or timer ever exists for a request without restaurantId.
C17_MissingRestaurantIdRejected == [][C17_Act]_vars

\* C17 witness: the endpoint has answered a request (its module is loaded)
\* and no stream was opened: the request had no restaurantId.
C17_Witness ==
  /\ sseInit
  /\ Accepted = {}
  /\ sseConnections = <<>>
  /\ \A s \in Streams : inbox[s] = <<>> /\ ~pingOn[s]

\* ---- the first frame of a stream
AppEvents == {ORDER_PLACED, ORDER_UPDATED, ORDER_STATUS_CHANGED}

\* C18: the first frame on every accepted connection is the connected event
\* carrying the id the connection was registered under; order events and
\* pings only come after it, and a stream never opened holds no frame.
C18_ConnectedIsFirstFrame ==
  \A s \in Streams :
    IF s \in Accepted
    THEN /\ Len(inbox[s]) >= 1
         /\ inbox[s][1].event = "connected"
         /\ inbox[s][1].connectionId = connId[s]
         /\ Registered(s) => ConnOf(s).id = inbox[s][1].connectionId
         /\ \A i \in 2..Len(inbox[s]) :
              inbox[s][i].event \in AppEvents \cup {"ping"}
    ELSE inbox[s] = <<>>

\* C18 witness: a stream holds the connected event, then an order event and
\* a ping.
C18_Witness ==
  \E s \in Streams :
    /\ Len(inbox[s]) >= 3
    /\ inbox[s][1].event = "connected"
    /\ \E i \in 2..Len(inbox[s]) : inbox[s][i].event \in AppEvents
    /\ \E i \in 2..Len(inbox[s]) : inbox[s][i].event = "ping"

\* ---- the client
\* C19: no subscriber callback is invoked for a ping frame.
C19_PingNotSurfaced ==
  \A i \in 1..Len(calls) : calls[i].event # "ping"

\* C20: isConnected becomes true only in a step in which the current
\* transport dispatches its connected event.
C20_LiveOnlyOnConnectedEvent ==
  [][(~isConnected /\ isConnected') =>
       /\ eventSourceRef \in 1..Len(es)
       /\ es'[eventSourceRef].read = es[eventSourceRef].read + 1
       /\ inbox[es[eventSourceRef].s][es'[eventSourceRef].read].event = "connected"
    ]_vars

\* ---- reconnection
\* The step is the error handler, resp. the open handler, of transport e.
ErrorStep(e) ==
  /\ e \in 1..Len(es) /\ Len(es') = Len(es)
  /\ es[e].readyState # "closed" /\ es'[e].readyState = "closed"
  /\ eventSourceRef' = eventSourceRef /\ connectionParamsRef' = connectionParamsRef
OpenStep(e) ==
  /\ e \in 1..Len(es) /\ Len(es') = Len(es)
  /\ es[e].readyState = "connecting" /\ es'[e].readyState = "open"

C21_Act ==
  /\ Len(timers') <= 1
  /\ reconnectTimeoutRef' <=> (timers' # <<>>)
  /\ \A i \in 1..Len(timers') : timers'[i] = 5000
  /\ \A e \in Transports :
       /\ ErrorStep(e) =>
            /\ ~isConnected'
            /\ Len(timers') = 1
            /\ timers # <<>> => timers' = timers
       /\ OpenStep(e) => timers' = <<>> /\ ~reconnectTimeoutRef'

\* C21: a transport error closes the transport, makes the client
\* disconnected and leaves exactly one reconnect timer of 5 s pending: one
\* is scheduled if none was pending, none is added otherwise; at most one
\* timer is ever pending, and none is pending once a connection has opened.
C21_OneReconnectTimer == [][C21_Act]_vars

\* C21 witness: two transports have failed one after the other (the second
\* opened by the timer of the first error or by a connect call made while
\* that timer was pending), and exactly one timer is pending.
C21_Witness ==
  /\ Len(es) = 2
  /\ es[1].readyState = "closed" /\ es[2].readyState = "closed"
  /\ es[1].s = 0 /\ es[2].s = 0
  /\ eventSourceRef = 2 /\ ~isConnected
  /\ Len(timers) = 1

\* ---- subscriptions
\* The step is the dispatch of the next frame of transport e.
MessageStep(e) ==
  /\ e \in 1..Len(es) /\ Len(es') = Len(es)
  /\ es'[e].read = es[e].read + 1
DispatchedFrame(e) == inbox[es[e].s][es[e].read + 1]

\* The invocations of cb, as a subscriber of name n, that the step made.
NewCalls(n, cb) ==
  {i \in (Len(calls) + 1)..Len(calls') : calls'[i].name = n /\ calls'[i].cb = cb}

Subscribed(n, cb) == InSeq(subscribersRef[n], cb)

C22_Act ==
  /\ SubSeq(calls', 1, Len(calls)) = calls
  /\ (\A e \in Transports : ~MessageStep(e)) => calls' = calls
  /\ \A e \in Transports : MessageStep(e) =>
       /\ es[e].readyState = "open" /\ e = eventSourceRef
       /\ \A i \in (Len(calls) + 1)..Len(calls') :
            calls'[i].e = e /\ calls'[i].event = DispatchedFrame(e).event
       /\ \A n \in EventNames, cb \in Callbacks :
            Cardinality(NewCalls(n, cb)) =
              IF Subscribed(n, cb) /\ n \in {DispatchedFrame(e).event, "*"}
              THEN 1 ELSE 0
  /\ \A n \in EventNames :
       /\ \A i, j \in 1..Len(subscribersRef'[n]) :
            i # j => subscribersRef'[n][i] # subscribersRef'[n][j]
       /\ (es' # es \/ reconnectTimeoutRef' # reconnectTimeoutRef) =>
            subscribersRef'[n] = subscribersRef[n]

\* C22: transport errors, reconnects and connect calls leave the
\* subscriptions as they are, no callback is held twice under a name, and
\* every frame a transport dispatches invokes each callback subscribed to
\* the frame's event name (or to "*") exactly once and no callback that is
\* not, or no longer, subscribed.
C22_SubscriptionsSurviveReconnect == [][C22_Act]_vars

\* C22 witness: after its first transport failed, the client's second
\* transport dispatched the status event to a callback subscribed under that
\* name, and a callback was invoked on the first transport too.
C22_Witness ==
  /\ Len(es) = 2 /\ es[1].readyState = "closed" /\ es[2].readyState = "open"
  /\ \E i \in 1..Len(calls) : calls[i].e = 1
  /\ \E i \in 1..Len(calls) :
       /\ calls[i].e = 2 /\ calls[i].name = ORDER_STATUS_CHANGED
       /\ calls[i].event = ORDER_STATUS_CHANGED

\* ---- polling
AdminViewsCurrent ==
  \A t \in Terminals : views[t] = OrdersOf(orders, TerminalRestaurant(t))
CustomerViewCurrent ==
  pageOrders = CustomerOrdersOf(orders, Session.customerPhone, Session.restaurantId)

\* C23: the admin orders view and the customer order-tracking view both
\* re-fetch the orders periodically whether or not a push connection is
\* open, so that every view ends up showing the persisted status of every
\* order once the updates have stopped.
C23_ViewsCatchUpByPolling == <>[](AdminViewsCurrent /\ CustomerViewCurrent)

\* ---- order of persistence and publishes
StatusEvents == {ORDER_STATUS_CHANGED, ORDER_UPDATED}

\* The frames the step enqueued on s.
NewFrames(s) == {i \in (Len(inbox[s]) + 1)..Len(inbox'[s]) : TRUE}

C24_Act ==
  /\ \A k \in Reqs :
       /\ PersistStep(k) =>
            \E i \in 1..Len(orders') :
              /\ orders'[i].orderId = req[k].orderId
              /\ orders'[i].status = req[k].newStatus
              /\ req'[k].doc = orders'[i]
       /\ (req[k].op = "update" /\ req'[k].pc # req[k].pc) =>
            <<req[k].pc, req'[k].pc>> \in
              { <<"idle", "done">>, <<"idle", "findOneAndUpdate">>,
                <<"findOneAndUpdate", "done">>,
                <<"findOneAndUpdate", "broadcastCustomer">>,
                <<"broadcastCustomer", "broadcastAdmin">>,
                <<"broadcastAdmin", "done">>, <<"done", "returned">> }
  /\ \A s \in Streams : \A i \in NewFrames(s) :
       LET f == inbox'[s][i] IN
       f.event \in StatusEvents =>
         /\ f.pub \in Reqs
         /\ req[f.pub].op = "update"
         /\ req[f.pub].pc =
              (IF f.event = ORDER_STATUS_CHANGED THEN "broadcastCustomer"
               ELSE "broadcastAdmin")
         /\ Persisted(f.pub)
         /\ req[f.pub].doc.status = f.data.status
         /\ req[f.pub].doc.orderId = f.data.orderId
         /\ f.data.order = req[f.pub].doc

\* C24: a status event is only ever pushed by an update that has already
\* persisted the status the event carries, as the status of the order the
\* event names: an update persists, then makes the customer publish, then
\* the admin publish, in that order.
C24_PersistBeforePublish == [][C24_Act]_vars

\* C24 witness: an update has persisted its status and pushed
\* order:status_changed to the customer, and has not yet made its admin
\* publish; an admin connection of the restaurant is waiting.
C24_Witness ==
  \E k \in Reqs, s \in Streams, a \in Streams :
    /\ req[k].op = "update" /\ req[k].pc = "broadcastAdmin"
    /\ FramesOf(s, k, ORDER_STATUS_CHANGED) # {}
    /\ Registered(a) /\ Healthy(a) /\ ConnOf(a).type = "admin"
    /\ ConnOf(a).restaurantId = req[k].doc.restoId
    /\ FramesOf(a, k, ORDER_UPDATED) = {}
    /\ \E i \in 1..Len(orders) :
         orders[i].orderId = req[k].orderId /\ orders[i].status = req[k].newStatus

\* ---- iteration of the registry by a publish
\* The connections registered when the step starts that the publish of
\* call k addresses.
Targets(k) == {s \in Streams : Registered(s) /\ Addressed(k, ConnOf(s))}

C25_Act ==
  /\ \A k \in Reqs : (req[k].op = "none" /\ IsBroadcast(req'[k].op)) =>
       /\ \A s \in Targets(k) :
            IF Healthy(s)
            THEN Delivered(s, k) /\ Registered(s)' /\ ConnOf(s)' = ConnOf(s)
            ELSE GotNothing(s) /\ ~Registered(s)'
       /\ \A s \in Streams \ Targets(k) :
            /\ GotNothing(s)
            /\ Registered(s) => Registered(s)' /\ ConnOf(s)' = ConnOf(s)
       /\ req'[k].pubs[1].broadcastCount =
            Cardinality({s \in Targets(k) : Healthy(s)})
       /\ req'[k].pubs[1].failed =
            Cardinality({s \in Targets(k) : ~Healthy(s)})
       /\ UNCHANGED <<ctrl, pingOn, aborted, connId>>
  /\ \A k \in Reqs, s \in Streams :
       Cardinality(FramesOf(s, k, req[k].event)') <= 1

ParamsSet == connectionParamsRef # NoParams
CurrentIs(state) ==
  eventSourceRef \in 1..Len(es) /\ es[eventSourceRef].readyState = state

\* While parameters are set there is a current transport, and if it is
\* closed a reconnect timer is pending.
NeverStuckDisconnected ==
  ParamsSet =>
    /\ eventSourceRef \in 1..Len(es)
    /\ CurrentIs("closed") => (reconnectTimeoutRef /\ timers # <<>>)

\* No further EventSource can be created within the bound, and the server
\* accepts no further connection within the bound.
TransportsExhausted == Len(es) = MaxTransports
ServerExhausted == \A s \in Streams : ctrl[s] # "none"

\* C26: while connection parameters are set the client is never
\* disconnected without a pending reconnect timer; every error is followed
\* by a new connection attempt (unless disconnect is called), and with the
\* server answering the client ends up connected, unless disconnect was
\* called, its last transport has failed, or the server has stopped
\* accepting and the current attempt stays unanswered.
C26_ReconnectStateMachine ==
  /\ []NeverStuckDisconnected
  /\ \A n \in 1..(MaxTransports - 1) :
       [](( Len(es) = n /\ ParamsSet /\ CurrentIs("closed") )
            => <>( Len(es) > n \/ ~ParamsSet ))
  /\ <>[]( \/ ~ParamsSet
           \/ CurrentIs("open") /\ isConnected
           \/ TransportsExhausted /\ CurrentIs("closed") /\ timers # <<>>
           \/ ServerExhausted /\ CurrentIs("connecting")
                /\ es[eventSourceRef].s = 0 )

\* C26 witness: the first transport failed, a second one was opened and the
\* client is connected on it with no timer pending.
C26_Witness ==
  /\ Len(es) = 2 /\ eventSourceRef = 2
  /\ es[1].readyState = "closed" /\ es[1].s # 0 /\ es[1].read >= 1
  /\ es[2].readyState = "open" /\ isConnected
  /\ timers = <<>> /\ ParamsSet

\* ---- a connection's own removal leaves the others alone
C27_Act ==
  \A s \in Streams, t \in Streams :
    ( /\ t # s
      /\ AbortFired(s) \/ PingFailed(s)
      /\ Registered(t) /\ Healthy(t) ) => Registered(t)'

\* C27: when the abort listener or the failing ping callback of one
\* connection runs, every other connection that is registered and whose
\* peer is still connected (so that no push to it has failed) is still
\* registered afterwards, also when both connections were opened with the
\* same type, restaurantId and customerPhone.
C27_OwnRemovalOnly == [][C27_Act]_vars

\* ---- concurrent updates of one order
NoUpdateRunning ==
  \A k \in Reqs : req[k].op = "update" => req[k].pc \in {"done", "returned"}

\* The order:status_changed frames s has received for the order.
StatusFrames(s, orderId) ==
  SelectSeq(inbox[s], LAMBDA f :
    f.event = ORDER_STATUS_CHANGED /\ f.data.orderId = orderId)

\* C28: once every status update of an order has completed, the last
\* order:status_changed event held by a customer connection that is still
\* registered and connected carries the order's persisted status (as it
\* must if events arrive in the order in which the statuses were
\* persisted).
C28_LastEventIsPersisted ==
  NoUpdateRunning =>
    \A s \in Streams :
      ( /\ Registered(s) /\ Healthy(s)
        /\ StatusFrames(s, "O1") # <<>> ) =>
        LET fs == StatusFrames(s, "O1") IN
        fs[Len(fs)].data.status = orders[FindOne("O1")].status

\* ---- one transport at a time
Live(e) == es[e].readyState # "closed"

C29_Act ==
  \A e \in 1..Len(es) :
    /\ es'[e].read # es[e].read => (e = eventSourceRef /\ Live(e))
    /\ ~Live(e) => ~Live(e)'

\* C29: every transport other than the current one is closed, so that at
\* most one transport is connecting or open at any time, and only a
\* transport that is current and not closed takes a frame; a closed
\* transport never comes back.
C29_OneTransport ==
  /\ [](\A e \in 1..Len(es) : Live(e) => e = eventSourceRef)
  /\ [][C29_Act]_vars

\* C29 witness: after a transport that failed and a transport that was
\* receiving when connect replaced it, the third transport is open and is
\* the only one not closed.
C29_Witness ==
  /\ Len(es) = 3 /\ eventSourceRef = 3
  /\ ~Live(1) /\ ~Live(2) /\ es[2].read >= 1
  /\ es[3].readyState = "open" /\ es[3].read >= 1

\* ---- what isConnected reports
\* C30: whenever isConnected is true, the current transport exists and is
\* open.
C30_ConnectedMeansOpen == isConnected => CurrentIs("open")

====
